---- MODULE Spec2Model ----
(***************************************************************************)
(* Model of the migration scripts of spider2-data-share:                   *)
(*   create_databases.py  "flat mode":   one pool over database units      *)
(*   create_tables.py     "nested mode": one pool over schema units, each   *)
(*                         opening an inner pool over its table statements  *)
(*   merge_databases.py / database_mapping.py: the name of a merged schema, *)
(*                         built with the delimiter and split again          *)
(* The warehouse (Snowflake) is the environment: every call to it either    *)
(* returns or raises, chosen nondeterministically at each call.             *)
(* Specifications: Spec (runs and re-runs of the two pool scripts),         *)
(* FairSpec (one run under fair scheduling), WideSpec (mappings that fill   *)
(* the pools), NameSpec (the merged names), MergeSpec (one call of          *)
(* merge_database), MappingSpec (the loop of database_mapping).             *)
(***************************************************************************)
EXTENDS Integers, Sequences, FiniteSets, TLC

\* ---------------------------------------------------------------- bounds
\* Number of records in the mapping file.
MaxRows == 2
\* Number of tables named in the mapping file, all records together.
MaxTables == 2
\* Number of times the operator runs the script on the same warehouse.
MaxRuns == 2

\* Length of a database or schema name, in characters.
MaxNameLen == 3
\* Number of schemas a SHOW SCHEMAS listing returns.
MaxSchemas == 3

\* ------------------------------------------------------ program constants
MAX_SCHEMA_THREADS == 2
MAX_TABLE_THREADS == 4
MaxDbWorkers == 8

\* ------------------------------------------------------------ name spaces
DbNames == {"FOO", "BAR", "EBI_CHEMBL"}
SchemaNames == {"FOO.S1", "BAR.S1"}
\* A table is named by a number: 1..MaxTables are the target tables of the
\* mapping, 0 is a table of another name found in a schema before the run.
OtherTable == 0
\* config.py from_env: the environment variables a connection is made from.
Params == {"SNOWFLAKE_ACCOUNT", "SNOWFLAKE_ROLE", "SNOWFLAKE_WAREHOUSE",
           "SNOWFLAKE_ADMIN_ROLE", "SNOWFLAKE_READONLY_ROLE", "DESTINATION_USER"}
NoSchema == [exists |-> FALSE, tables |-> {}]
Schema(tables) == [exists |-> TRUE, tables |-> tables]

VARIABLES
    missing,             \* the required environment variables that are not set
    faults,              \* whether the warehouse may raise on a call that can succeed
    nrecords,            \* number of records the loop of main goes over to fill the dict
    mode,                \* "flat": create_databases.main, "nested": create_tables.main
    units,               \* keys of dbs_setup_commands / schema_to_table_sqls, in insertion order
    cmds,                \* unit id -> its statement list
    databases,           \* warehouse: the databases that exist
    schemas,             \* warehouse: schema -> NoSchema, or Schema(the set of its tables)
    pc,                  \* unit id -> position of the unit's worker
    sq,                  \* unit id -> state of each statement of the unit in this run
    raisedAt,            \* unit id -> the calls of the worker that raised in this run
    result,              \* unit id -> what the unit's future holds
    collected,           \* futures the result loop of main has consumed
    db_create_statuses,  \* flat mode's outcome mapping
    statuses,            \* nested mode's count per Status
    writes,              \* unit id -> number of outcomes recorded for it in this run
    calls,               \* unit id -> the queries its worker sent in this run, each with its connection
    mainPc,              \* position of main
    run,                 \* number of the current run
    prev,                \* unit id -> outcome the previous run recorded for it
    \* merge_databases.py and database_mapping.py, for one schema of one database
    namePc,              \* position: "merge", then "merged" or "rejected", then "mapped"
    database_name,       \* the name of the database that is merged, a string of characters
    schema_name,         \* the name of its schema
    merged,              \* the name of the schema's clone in the output database
    parts,               \* what database_mapping gets from splitting that name
    \* merge_databases.py and database_mapping.py, for the whole listing of one database
    schema_names,        \* what SHOW SCHEMAS IN DATABASE returns, in listing order
    idx,                 \* position of the for loop in its list
    dry_run,             \* merge_database's dry_run argument
    executed,            \* the statements the connection executed, in order
    unpacked,            \* database_mapping's new_database_name and real_schema_name: <<>> while unbound
    jsons                \* database_mapping's records, in order

\* What a run is given and never changes.
inputs == <<missing, faults, nrecords>>

\* The variables of merge_databases and database_mapping.
loops == <<schema_names, idx, dry_run, executed, unpacked, jsons>>
naming == <<namePc, database_name, schema_name, merged, parts, loops>>

\* The variables of create_databases and create_tables.
pools == <<inputs, mode, units, cmds, databases, schemas, pc, sq, raisedAt, result,
           collected, db_create_statuses, statuses, writes, calls, mainPc, run, prev>>

vars == <<naming, pools>>

\* The ids the maps of the run are over.
Ids == DOMAIN pc

\* The ways a call to the warehouse may end (TRUE: it returns, FALSE: it
\* raises): a call that cannot succeed raises, one that can succeed raises
\* only when the warehouse has faults.
Answers(can) == {ok \in BOOLEAN : (ok => can) /\ (~ok => (faults \/ ~can))}

\* ------------------------------------------------------------ helpers
\* Variant: a list of the records is kept instead of a dict, one entry each.
DictKeysPerRecord(seq) == seq

RECURSIVE DictKeys(_)
\* Keys of a dict filled by one pass over seq, in insertion order.
DictKeys(seq) ==
    IF seq = <<>> THEN <<>>
    ELSE LET rest == DictKeys(SubSeq(seq, 1, Len(seq) - 1))
             last == seq[Len(seq)]
         IN IF \E i \in 1..Len(rest) : rest[i] = last THEN rest
            ELSE Append(rest, last)

Range(seq) == {seq[i] : i \in 1..Len(seq)}

SeqsUpTo(S, n) == UNION {[1..k -> S] : k \in 0..n}

\* config.py get_database_setup_commands: the template, split on newlines.
get_database_setup_commands ==
    << "USE ROLE accountadmin",
       "CREATE DATABASE IF NOT EXISTS",
       "GRANT OWNERSHIP ON DATABASE",
       "GRANT ALL PRIVILEGES ON DATABASE",
       "GRANT USAGE ON DATABASE",
       "GRANT USAGE ON ALL SCHEMAS IN DATABASE",
       "GRANT USAGE ON FUTURE SCHEMAS IN DATABASE",
       "GRANT SELECT ON ALL TABLES IN DATABASE",
       "GRANT SELECT ON FUTURE TABLES IN DATABASE" >>

\* create_databases.py process_jsonl_file: rows of EBI_CHEMBL are dropped.
process_jsonl_file(rows) == SelectSeq(rows, LAMBDA d : d # "EBI_CHEMBL")

\* create_databases.py check_database_exists: SHOW DATABASES LIKE db has a row.
check_database_exists(db) == db \in databases

\* The effect on the warehouse of a statement of the database unit db that
\* returned without raising. The GRANT statements change no existence fact.
ExecuteDbCmd(cmd, db) ==
    IF cmd = "CREATE DATABASE IF NOT EXISTS" THEN databases \cup {db}
    ELSE databases

\* ------------------------------------------------------------ connections
\* get_sf_connection: every call makes a new connection, named by its caller.
get_sf_connection(caller) == caller

\* Variant: the workers of create_databases use one connection made by main.
ConnOfShared(u) == get_sf_connection("main")

\* The connection the worker of unit u sends its queries on: in
\* create_databases the one exec_set_of_cmds made for itself (sf_conn), in
\* create_tables the conn main made once and hands to every submit.
ConnOf(u) ==
    IF mode = "flat" THEN get_sf_connection(u)
    ELSE get_sf_connection("main")

\* The worker of u sends a query of this kind.
Sent(u, sql) == [calls EXCEPT ![u] = @ \cup {[conn |-> ConnOf(u), sql |-> sql]}]

\* ------------------------------------------------------------ pools
Queued(u) == pc[u] = "queued"
Finished(u) == pc[u] = "done"
Running(u) == pc[u] \notin {"idle", "queued", "done"}

\* Variant: once the future of a unit holds a failure, the items still in the
\* queue are cancelled.
NextQueuedCancelOnFailure(u, width) ==
    /\ pc[u] = "queued"
    /\ \E i \in 1..Len(units) :
          /\ units[i] = u
          /\ \A j \in 1..(i - 1) : pc[units[j]] # "queued"
    /\ Cardinality({v \in Ids : pc[v] \notin {"idle", "queued", "done"}}) < width
    /\ \A v \in Ids : result[v] \notin {"EXC", "FAILED", "ERROR"}

\* Variant: a thread is started for every submitted item, whatever the width.
NextQueuedUnbounded(u, width) ==
    /\ pc[u] = "queued"
    /\ \E i \in 1..Len(units) :
          /\ units[i] = u
          /\ \A j \in 1..(i - 1) : pc[units[j]] # "queued"

\* ThreadPoolExecutor: work items are taken from the queue in submission
\* order, by at most `width` workers.
NextQueued(u, width) ==
    /\ Queued(u)
    /\ \E i \in 1..Len(units) :
          /\ units[i] = u
          /\ \A j \in 1..(i - 1) : ~Queued(units[j])
    /\ Cardinality({v \in Ids : Running(v)}) < width

\* A worker ends: its future holds a result or the exception it raised.
Return(u, res) ==
    /\ pc' = [pc EXCEPT ![u] = "done"]
    /\ result' = [result EXCEPT ![u] = res]

FreshSq == [u \in Ids |-> [k \in 1..Len(cmds[u]) |-> "pending"]]

\* ------------------------------------------------------------ Init
FlatInit ==
    /\ mode = "flat"
    /\ \E rows \in SeqsUpTo(DbNames, MaxRows) :
          /\ nrecords = Len(process_jsonl_file(rows))
          /\ units = DictKeys(process_jsonl_file(rows))
    /\ cmds = [u \in Ids |-> IF u \in Range(units)
                                THEN get_database_setup_commands ELSE <<>>]
    /\ databases \in SUBSET (DbNames \ {"EBI_CHEMBL"})
    /\ schemas = [s \in SchemaNames |-> NoSchema]

\* create_tables.py main: schema_to_table_sqls[row["target_schema"]] = table_sqls;
\* a later row of the same schema replaces the statements of an earlier one.
TableSqls(rows, schema) ==
    LET last == CHOOSE i \in 1..Len(rows) :
                   /\ rows[i][1] = schema
                   /\ \A j \in (i + 1)..Len(rows) : rows[j][1] # schema
    IN [k \in 1..rows[last][2] |-> k]

SchemaOf(rows) == [i \in 1..Len(rows) |-> rows[i][1]]

RECURSIVE TotalTables(_)
TotalTables(rows) ==
    IF rows = <<>> THEN 0
    ELSE rows[Len(rows)][2] + TotalTables(SubSeq(rows, 1, Len(rows) - 1))

NestedInit ==
    /\ mode = "nested"
    /\ \E rows \in SeqsUpTo(SchemaNames \X (0..MaxTables), MaxRows) :
          /\ TotalTables(rows) <= MaxTables
          \* the two schema names are interchangeable: the first record is FOO.S1's
          /\ rows # <<>> => rows[1][1] = "FOO.S1"
          /\ nrecords = Len(rows)
          /\ units = DictKeys(SchemaOf(rows))
          /\ cmds = [u \in Ids |-> IF u \in Range(units)
                                      THEN TableSqls(rows, u) ELSE <<>>]
    /\ databases = {}
    /\ schemas \in [SchemaNames -> {NoSchema, Schema({OtherTable})}]
    /\ \A s \in SchemaNames \ Range(units) : schemas[s] = NoSchema

\* The state of main and its pools before a first run.
RunInit ==
    /\ sq = [u \in Ids |-> [k \in 1..Len(cmds[u]) |-> "pending"]]
    /\ raisedAt = [u \in Ids |-> {}]
    /\ result = [u \in Ids |-> "NONE"]
    /\ collected = {}
    /\ db_create_statuses = <<>>
    /\ statuses = [s \in {"SKIP", "SUCCESS", "ERROR"} |-> 0]
    /\ writes = [u \in Ids |-> 0]
    /\ calls = [u \in Ids |-> {}]
    /\ mainPc = "config"
    /\ run = 1
    /\ prev = [u \in Ids |-> "NONE"]

\* No listing is being looped over.
LoopsIdle ==
    /\ schema_names = <<>>
    /\ idx = 0
    /\ dry_run = TRUE
    /\ executed = <<>>
    /\ unpacked = <<>>
    /\ jsons = <<>>

\* merge_databases and database_mapping are not running.
NamingIdle ==
    /\ namePc = "idle"
    /\ database_name = <<>>
    /\ schema_name = <<>>
    /\ merged = <<>>
    /\ parts = <<>>
    /\ LoopsIdle

Init ==
    /\ NamingIdle
    /\ pc = [u \in DbNames \cup SchemaNames |-> "idle"]
    /\ (FlatInit \/ NestedInit)
    /\ missing \in SUBSET Params
    /\ faults = TRUE
    /\ RunInit

\* ------------------------------------------------------------ start of main
\* Variant: the check of SNOWFLAKE_READONLY_ROLE is left out.
MissingConfigsFour(m) ==
    m \cap {"SNOWFLAKE_ACCOUNT", "SNOWFLAKE_ROLE", "SNOWFLAKE_WAREHOUSE",
            "SNOWFLAKE_ADMIN_ROLE"}

\* config.py from_env: missing_configs, the unset variables among the five
\* that are checked. DESTINATION_USER is read and not checked.
MissingConfigs(m) ==
    m \cap {"SNOWFLAKE_ACCOUNT", "SNOWFLAKE_ROLE", "SNOWFLAKE_WAREHOUSE",
            "SNOWFLAKE_ADMIN_ROLE", "SNOWFLAKE_READONLY_ROLE"}

\* connector.connect with the default authenticator "snowflake" raises when
\* it is given no user; otherwise the warehouse decides.
CanConnect == "DESTINATION_USER" \notin missing

\* executor.submit for every key of the dict: all units are queued.
Submit == pc' = [u \in Ids |-> IF u \in Range(units) THEN "queued" ELSE "idle"]

\* config = SnowflakeConfig.from_env(...): ValueError leaves main when a
\* checked variable is missing. create_databases goes on to its pool,
\* create_tables to conn = get_sf_connection(config).
FromEnv ==
    /\ mainPc = "config"
    /\ IF MissingConfigs(missing) # {}
       THEN mainPc' = "config_error" /\ UNCHANGED pc
       ELSE IF mode = "flat"
            THEN mainPc' = "pool" /\ Submit
            ELSE mainPc' = "connect" /\ UNCHANGED pc
    /\ UNCHANGED <<naming, inputs, calls, mode, units, cmds, databases, schemas, sq, raisedAt,
                   result, collected, db_create_statuses, statuses, writes, run, prev>>

\* create_tables main: conn = get_sf_connection(config); a raise leaves main
\* before the mapping is read.
MainConnect ==
    /\ mode = "nested"
    /\ mainPc = "connect"
    /\ \E ok \in Answers(CanConnect) :
          /\ IF ok
             THEN mainPc' = "pool" /\ Submit
             ELSE mainPc' = "connect_error" /\ UNCHANGED pc
    /\ UNCHANGED <<naming, inputs, calls, mode, units, cmds, databases, schemas, sq, raisedAt,
                   result, collected, db_create_statuses, statuses, writes, run, prev>>

\* ------------------------------------------------------------ flat mode
\* A pool worker takes the unit: exec_set_of_cmds starts (time.sleep).
FStart(u) ==
    /\ mode = "flat"
    /\ mainPc \in {"pool", "raised"}
    /\ NextQueued(u, MaxDbWorkers)
    /\ pc' = [pc EXCEPT ![u] = "connect"]
    /\ UNCHANGED <<naming, inputs, calls, mode, units, cmds, databases, schemas, sq, raisedAt, result,
                   collected, db_create_statuses, statuses, writes, mainPc, run, prev>>

\* sf_conn = get_sf_connection(config): a raise leaves exec_set_of_cmds.
FConnect(u) ==
    /\ mode = "flat"
    /\ pc[u] = "connect"
    /\ \E ok \in Answers(CanConnect) :
          /\ IF ok
             THEN /\ pc' = [pc EXCEPT ![u] = "check"]
                  /\ UNCHANGED <<result, raisedAt>>
             ELSE /\ Return(u, "EXC")
                  /\ raisedAt' = [raisedAt EXCEPT ![u] = @ \cup {"connect"}]
    /\ UNCHANGED <<naming, inputs, calls, mode, units, cmds, databases, schemas, sq,
                   collected, db_create_statuses, statuses, writes, mainPc, run, prev>>

\* Variant: a check that raises is taken as "does not exist".
AfterDbCheckSwallow(ok, exists) == IF ok /\ exists THEN "SKIPPED" ELSE "NONE"

\* Variant: the statements are run whatever the check answers.
AfterDbCheckNoSkip(ok, exists) == IF ~ok THEN "EXC" ELSE "NONE"

\* What exec_set_of_cmds does once check_database_exists returned (ok) or
\* raised: the exception leaves the function ("EXC"), an existing database
\* returns "SKIPPED", else the statements follow ("NONE").
AfterDbCheck(ok, exists) ==
    IF ~ok THEN "EXC"
    ELSE IF exists THEN "SKIPPED"
    ELSE "NONE"

\* if db_to_check is not None: if check_database_exists(...): return "SKIPPED"
FCheck(u) ==
    /\ mode = "flat"
    /\ pc[u] = "check"
    /\ \E ok \in Answers(TRUE) :
          /\ raisedAt' = IF ok THEN raisedAt
                         ELSE [raisedAt EXCEPT ![u] = @ \cup {"check"}]
          /\ IF AfterDbCheck(ok, check_database_exists(u)) = "NONE"
             THEN /\ pc' = [pc EXCEPT ![u] = "exec"]
                  /\ UNCHANGED result
             ELSE Return(u, AfterDbCheck(ok, check_database_exists(u)))
    /\ calls' = Sent(u, "SHOW DATABASES")
    /\ UNCHANGED <<naming, inputs, mode, units, cmds, databases, schemas, sq,
                   collected, db_create_statuses, statuses, writes, mainPc, run, prev>>

\* The statement the for loop of exec_set_of_cmds executes next.
NextCmd(u) ==
    CHOOSE k \in 1..(Len(cmds[u]) + 1) :
        /\ k <= Len(cmds[u]) => sq[u][k] = "pending"
        /\ \A j \in 1..(k - 1) : sq[u][j] # "pending"

\* Variant: the except clause logs and the loop goes on.
AfterCmdSwallow(ok, k, n) == IF k = n THEN "DONE" ELSE "NONE"

\* What the for loop does once statement k of n returned (ok) or raised:
\* return "FAILED" in the except clause, "DONE" after the last statement,
\* else go on with the next statement ("NONE").
AfterCmd(ok, k, n) ==
    IF ~ok THEN "FAILED"
    ELSE IF k = n THEN "DONE"
    ELSE "NONE"

\* One turn of: for cmd in cmds: try: sf_conn.cursor().execute(cmd).fetchall()
FExec(u) ==
    /\ mode = "flat"
    /\ pc[u] = "exec"
    /\ LET k == NextCmd(u)
           n == Len(cmds[u])
       IN \E ok \in Answers(TRUE) :
            IF k > n
            THEN /\ ok
                 /\ Return(u, "DONE")
                 /\ UNCHANGED <<sq, databases, raisedAt, calls>>
            ELSE /\ sq' = [sq EXCEPT ![u][k] = IF ok THEN "ok" ELSE "raised"]
                 /\ calls' = Sent(u, cmds[u][k])
                 /\ databases' = IF ok THEN ExecuteDbCmd(cmds[u][k], u) ELSE databases
                 /\ UNCHANGED raisedAt
                 /\ IF AfterCmd(ok, k, n) = "NONE"
                    THEN UNCHANGED <<pc, result>>
                    ELSE Return(u, AfterCmd(ok, k, n))
    /\ UNCHANGED <<naming, inputs, mode, units, cmds, schemas,
                   collected, db_create_statuses, statuses, writes, mainPc, run, prev>>

\* Variant: the loop has no try/except around future.result().
OnFutureFlatNoCatch(res) == IF res = "EXC" THEN "RAISE" ELSE res

\* What the result loop of main records for a future: status = future.result(),
\* or "ERROR" in the except clause; "RAISE" stands for leaving the loop.
OnFutureFlat(res) == IF res = "EXC" THEN "ERROR" ELSE res

\* Variant: the except clause logs the error and records nothing.
RecordStatusDropError(d, u, status) ==
    IF status = "ERROR" THEN d
    ELSE [x \in DOMAIN d \cup {u} |-> IF x = u THEN status ELSE d[x]]

\* db_create_statuses[db] = status
RecordStatus(d, u, status) ==
    [x \in DOMAIN d \cup {u} |-> IF x = u THEN status ELSE d[x]]

\* One turn of: for future in as_completed(future_to_db): ...
FCollect(u) ==
    /\ mode = "flat"
    /\ mainPc = "pool"
    /\ Finished(u)
    /\ u \notin collected
    /\ collected' = collected \cup {u}
    /\ IF OnFutureFlat(result[u]) = "RAISE"
       THEN /\ mainPc' = "raised"
            /\ UNCHANGED <<db_create_statuses, writes>>
       ELSE /\ db_create_statuses' =
                  RecordStatus(db_create_statuses, u, OnFutureFlat(result[u]))
            /\ writes' = [writes EXCEPT ![u] =
                             IF db_create_statuses' = db_create_statuses THEN @ ELSE @ + 1]
            /\ UNCHANGED mainPc
    /\ UNCHANGED <<naming, inputs, calls, mode, units, cmds, databases, schemas, pc, sq, raisedAt, result,
                   statuses, run, prev>>

\* ------------------------------------------------------------ nested mode
\* Variant: no try/except around _check_schema_and_execute.
UnsafeCheckSchemaAndExecute(res) == res

\* safe_check_schema_and_execute: an exception of _check_schema_and_execute
\* ("EXC") is caught and Status.ERROR returned.
safe_check_schema_and_execute(res) == IF res = "EXC" THEN "ERROR" ELSE res

\* A pool worker takes the unit: safe_check_schema_and_execute starts.
NStart(u) ==
    /\ mode = "nested"
    /\ mainPc \in {"pool", "raised"}
    /\ NextQueued(u, MAX_SCHEMA_THREADS)
    /\ pc' = [pc EXCEPT ![u] = "begin"]
    /\ UNCHANGED <<naming, inputs, calls, mode, units, cmds, databases, schemas, sq, raisedAt, result,
                   collected, db_create_statuses, statuses, writes, mainPc, run, prev>>

\* Variant: the check of the empty list is left out.
EmptyCheckLeftOut(n) == "NONE"

\* if len(sqls) == 0: return Status.SKIP. The cursor is made on the open
\* connection of main, which sends nothing to the warehouse.
EmptyCheck(n) == IF n = 0 THEN "SKIP" ELSE "NONE"

NBegin(u) ==
    /\ mode = "nested"
    /\ pc[u] = "begin"
    /\ IF EmptyCheck(Len(cmds[u])) = "NONE"
       THEN /\ pc' = [pc EXCEPT ![u] = "show"]
            /\ UNCHANGED result
       ELSE Return(u, safe_check_schema_and_execute(EmptyCheck(Len(cmds[u]))))
    /\ UNCHANGED <<naming, inputs, calls, mode, units, cmds, databases, schemas, sq, raisedAt,
                   collected, db_create_statuses, statuses, writes, mainPc, run, prev>>

\* Variant: a schema that holds any table is taken as complete.
CountCheckNonEmpty(created, n) == IF created > 0 THEN "SKIP" ELSE "NONE"

\* if len(created_tables) == len(sqls): return Status.SKIP
CountCheck(created, n) == IF created = n THEN "SKIP" ELSE "NONE"

\* Variant: the tables found are compared with the target tables by name.
SchemaCompleteByName(created_tables, sqls) ==
    IF created_tables = Range(sqls) THEN "SKIP" ELSE "NONE"

\* The skip check on the tables found in the schema and the unit's statement
\* list: only their lengths are compared.
SchemaComplete(created_tables, sqls) ==
    CountCheck(Cardinality(created_tables), Len(sqls))

\* created_tables = cursor.execute("SHOW TABLES IN SCHEMA ...").fetchall()
\* The query raises when the schema does not exist ("no_schema"), and may
\* raise although it exists ("check"); either way the except clause goes on
\* to create the schema.
NShow(u) ==
    /\ mode = "nested"
    /\ pc[u] = "show"
    /\ \E ok \in Answers(schemas[u].exists) :
          /\ IF ~ok
             THEN /\ raisedAt' = [raisedAt EXCEPT ![u] = @ \cup
                                     {IF schemas[u].exists THEN "check" ELSE "no_schema"}]
                  /\ pc' = [pc EXCEPT ![u] = "create"]
                  /\ UNCHANGED result
             ELSE /\ UNCHANGED raisedAt
                  /\ IF SchemaComplete(schemas[u].tables, cmds[u]) = "NONE"
                     THEN /\ pc' = [pc EXCEPT ![u] = "pool"]
                          /\ UNCHANGED result
                     ELSE Return(u, safe_check_schema_and_execute(
                                       SchemaComplete(schemas[u].tables, cmds[u])))
    /\ calls' = Sent(u, "SHOW TABLES")
    /\ UNCHANGED <<naming, inputs, mode, units, cmds, databases, schemas, sq,
                   collected, db_create_statuses, statuses, writes, mainPc, run, prev>>

\* Variant: the statement is handed off and has not taken effect when the
\* worker goes on.
CreateSchemaNotAwaited(s) == s

\* The effect of a CREATE SCHEMA IF NOT EXISTS that returned: a missing
\* schema now exists, empty; an existing one is left as it is.
CreateSchemaIfNotExists(s) == IF s.exists THEN s ELSE Schema({})

\* except Exception: cursor.execute("CREATE SCHEMA IF NOT EXISTS ...");
\* created_tables = []. A raise here leaves _check_schema_and_execute.
NCreate(u) ==
    /\ mode = "nested"
    /\ pc[u] = "create"
    /\ \E ok \in Answers(TRUE) :
          IF ~ok
          THEN /\ raisedAt' = [raisedAt EXCEPT ![u] = @ \cup {"create_schema"}]
               /\ Return(u, safe_check_schema_and_execute("EXC"))
               /\ UNCHANGED schemas
          ELSE /\ UNCHANGED raisedAt
               /\ schemas' = [schemas EXCEPT ![u] = CreateSchemaIfNotExists(@)]
               /\ IF SchemaComplete({}, cmds[u]) = "NONE"
                  THEN /\ pc' = [pc EXCEPT ![u] = "pool"]
                       /\ UNCHANGED result
                  ELSE Return(u, safe_check_schema_and_execute(SchemaComplete({}, cmds[u])))
    /\ calls' = Sent(u, "CREATE SCHEMA")
    /\ UNCHANGED <<naming, inputs, mode, units, cmds, databases, sq,
                   collected, db_create_statuses, statuses, writes, mainPc, run, prev>>

InExecution(u) == {k \in 1..Len(cmds[u]) : sq[u][k] = "running"}

\* execute_sqls: a worker of the inner pool takes the next submitted statement.
TStart(u, k) ==
    /\ mode = "nested"
    /\ pc[u] = "pool"
    /\ k \in 1..Len(cmds[u])
    /\ sq[u][k] = "pending"
    /\ \A j \in 1..(k - 1) : sq[u][j] # "pending"
    /\ Cardinality(InExecution(u)) < MAX_TABLE_THREADS
    /\ sq' = [sq EXCEPT ![u][k] = "running"]
    /\ calls' = Sent(u, "CREATE TABLE")
    /\ UNCHANGED <<naming, inputs, mode, units, cmds, databases, schemas, pc, raisedAt, result,
                   collected, db_create_statuses, statuses, writes, mainPc, run, prev>>

\* execute_sql: cursor.execute(sql) returns (CREATE TABLE IF NOT EXISTS adds
\* the table) or raises; the exception stays in the statement's future.
TFinish(u, k) ==
    /\ mode = "nested"
    /\ pc[u] = "pool"
    /\ k \in 1..Len(cmds[u])
    /\ sq[u][k] = "running"
    /\ \E ok \in Answers(TRUE) :
          /\ sq' = [sq EXCEPT ![u][k] = IF ok THEN "ok" ELSE "raised"]
          /\ schemas' = IF ok THEN [schemas EXCEPT ![u] = Schema(@.tables \cup {cmds[u][k]})]
                        ELSE schemas
    /\ UNCHANGED <<naming, inputs, calls, mode, units, cmds, databases, pc, raisedAt, result,
                   collected, db_create_statuses, statuses, writes, mainPc, run, prev>>

\* What _check_schema_and_execute returns once execute_sqls is over:
\* execute_sqls never asks a statement's future for its result, so it returns
\* normally whether or not a statement raised.
AfterExecuteSqls(anyRaised) == "SUCCESS"

\* Variant: execute_sqls returns at the first completed future, without
\* waiting for the pool.
DrainedFirstCompleted(u) == \E k \in 1..Len(cmds[u]) : sq[u][k] \in {"ok", "raised"}

\* The as_completed loop of execute_sqls has gone over every future and the
\* with block has shut the pool down: every statement returned or raised.
Drained(u) == \A k \in 1..Len(cmds[u]) : sq[u][k] \in {"ok", "raised"}

\* The with block of execute_sqls ends when every statement's future is done.
NReturn(u) ==
    /\ mode = "nested"
    /\ pc[u] = "pool"
    /\ Drained(u)
    /\ Return(u, safe_check_schema_and_execute(
                    AfterExecuteSqls(\E k \in 1..Len(cmds[u]) : sq[u][k] = "raised")))
    /\ UNCHANGED <<naming, inputs, calls, mode, units, cmds, databases, schemas, sq, raisedAt,
                   collected, db_create_statuses, statuses, writes, mainPc, run, prev>>

\* statuses[status] += 1
CountStatus(c, status) == [c EXCEPT ![status] = @ + 1]

\* One turn of: for future in as_completed(futures):
\*                  status = future.result(); statuses[status] += 1
NCollect(u) ==
    /\ mode = "nested"
    /\ mainPc = "pool"
    /\ Finished(u)
    /\ u \notin collected
    /\ collected' = collected \cup {u}
    /\ IF result[u] = "EXC"
       THEN /\ mainPc' = "raised"
            /\ UNCHANGED <<statuses, writes>>
       ELSE /\ statuses' = CountStatus(statuses, result[u])
            /\ writes' = [writes EXCEPT ![u] =
                             IF statuses' = statuses THEN @ ELSE @ + 1]
            /\ UNCHANGED mainPc
    /\ UNCHANGED <<naming, inputs, calls, mode, units, cmds, databases, schemas, pc, sq, raisedAt, result,
                   db_create_statuses, run, prev>>

\* ------------------------------------------------------------ main
\* The with block of main ends: every future is done and the loop is over.
MainExit ==
    /\ \/ mainPc = "pool" /\ collected = Range(units)
       \/ mainPc = "raised"
    /\ \A u \in Range(units) : Finished(u)
    /\ mainPc' = IF mainPc = "pool" THEN "done" ELSE "aborted"
    /\ UNCHANGED <<naming, inputs, calls, mode, units, cmds, databases, schemas, pc, sq, raisedAt, result,
                   collected, db_create_statuses, statuses, writes, run, prev>>

\* The outcome the run recorded for unit u.
Outcome(u) ==
    IF mode = "flat"
    THEN IF u \in DOMAIN db_create_statuses THEN db_create_statuses[u] ELSE "NONE"
    ELSE IF u \in collected THEN result[u] ELSE "NONE"

\* The operator runs the script again: same mapping file, same warehouse.
Rerun ==
    /\ mainPc = "done"
    /\ run < MaxRuns
    /\ run' = run + 1
    /\ prev' = [u \in Ids |-> Outcome(u)]
    /\ pc' = [u \in Ids |-> "idle"]
    /\ sq' = FreshSq
    /\ raisedAt' = [u \in Ids |-> {}]
    /\ result' = [u \in Ids |-> "NONE"]
    /\ collected' = {}
    /\ db_create_statuses' = <<>>
    /\ statuses' = [s \in {"SKIP", "SUCCESS", "ERROR"} |-> 0]
    /\ writes' = [u \in Ids |-> 0]
    /\ calls' = [u \in Ids |-> {}]
    /\ mainPc' = "config"
    /\ UNCHANGED <<naming, inputs, mode, units, cmds, databases, schemas>>

Next ==
    \/ FromEnv
    \/ MainConnect
    \/ \E u \in Ids : FStart(u)
    \/ \E u \in Ids : FConnect(u)
    \/ \E u \in Ids : FCheck(u)
    \/ \E u \in Ids : FExec(u)
    \/ \E u \in Ids : FCollect(u)
    \/ \E u \in Ids : NStart(u)
    \/ \E u \in Ids : NBegin(u)
    \/ \E u \in Ids : NShow(u)
    \/ \E u \in Ids : NCreate(u)
    \/ \E u \in Ids, k \in 1..MaxTables : TStart(u, k)
    \/ \E u \in Ids, k \in 1..MaxTables : TFinish(u, k)
    \/ \E u \in Ids : NReturn(u)
    \/ \E u \in Ids : NCollect(u)
    \/ MainExit
    \/ Rerun

Spec == Init /\ [][Next]_vars

\* ------------------------------------------------------------ one fair run
\* The steps of one run of a script: everything but the operator's re-run.
Step ==
    \/ FromEnv
    \/ MainConnect
    \/ \E u \in Ids : FStart(u)
    \/ \E u \in Ids : FConnect(u)
    \/ \E u \in Ids : FCheck(u)
    \/ \E u \in Ids : FExec(u)
    \/ \E u \in Ids : FCollect(u)
    \/ \E u \in Ids : NStart(u)
    \/ \E u \in Ids : NBegin(u)
    \/ \E u \in Ids : NShow(u)
    \/ \E u \in Ids : NCreate(u)
    \/ \E u \in Ids, k \in 1..MaxTables : TStart(u, k)
    \/ \E u \in Ids, k \in 1..MaxTables : TFinish(u, k)
    \/ \E u \in Ids : NReturn(u)
    \/ \E u \in Ids : NCollect(u)
    \/ MainExit

\* One run in which the threads are scheduled and every call to the warehouse
\* returns or raises: a step that stays possible is eventually taken.
FairSpec == Init /\ [][Step]_vars /\ WF_vars(Step)

\* ------------------------------------------------------------ full pools
\* Mappings that fill the pools: one database more than the pool of
\* create_databases is wide; one schema more than the outer pool of
\* create_tables is wide, each with one table more than the inner pool is wide.
\* To keep these runs small the warehouse has no faults and, in flat mode,
\* every database exists already.
WideDatabases ==
    SubSeq(<<"DB1", "DB2", "DB3", "DB4", "DB5", "DB6", "DB7", "DB8", "DB9", "DB10">>,
           1, MaxDbWorkers + 1)

WideSchemas ==
    SubSeq(<<"DB1.S1", "DB1.S2", "DB1.S3", "DB1.S4">>, 1, MAX_SCHEMA_THREADS + 1)

WideRows == [i \in 1..Len(WideSchemas) |-> <<WideSchemas[i], MAX_TABLE_THREADS + 1>>]

WideFlatInit ==
    /\ mode = "flat"
    /\ nrecords = Len(process_jsonl_file(WideDatabases))
    /\ units = DictKeys(process_jsonl_file(WideDatabases))
    /\ cmds = [u \in Ids |-> IF u \in Range(units)
                                THEN get_database_setup_commands ELSE <<>>]
    /\ databases = Range(WideDatabases)
    /\ schemas = [s \in Range(WideSchemas) |-> NoSchema]

WideNestedInit ==
    /\ mode = "nested"
    /\ nrecords = Len(WideRows)
    /\ units = DictKeys(SchemaOf(WideRows))
    /\ cmds = [u \in Ids |-> IF u \in Range(units)
                                THEN TableSqls(WideRows, u) ELSE <<>>]
    /\ databases = {}
    /\ schemas = [s \in Range(WideSchemas) |-> NoSchema]

WideInit ==
    /\ NamingIdle
    /\ pc = [u \in Range(WideDatabases) \cup Range(WideSchemas) |-> "idle"]
    /\ (WideFlatInit \/ WideNestedInit)
    /\ missing = {}
    /\ faults = FALSE
    /\ RunInit

\* One run; no statement of a database unit is reached (every database
\* exists), so the statement loop of exec_set_of_cmds is left out.
WideNext ==
    \/ FromEnv
    \/ MainConnect
    \/ \E u \in Ids : FStart(u)
    \/ \E u \in Ids : FConnect(u)
    \/ \E u \in Ids : FCheck(u)
    \/ \E u \in Ids : FCollect(u)
    \/ \E u \in Ids : NStart(u)
    \/ \E u \in Ids : NBegin(u)
    \/ \E u \in Ids : NShow(u)
    \/ \E u \in Ids : NCreate(u)
    \/ \E u \in Ids, k \in 1..(MAX_TABLE_THREADS + 1) : TStart(u, k)
    \/ \E u \in Ids, k \in 1..(MAX_TABLE_THREADS + 1) : TFinish(u, k)
    \/ \E u \in Ids : NReturn(u)
    \/ \E u \in Ids : NCollect(u)
    \/ MainExit

WideSpec == WideInit /\ [][WideNext]_vars

\* ------------------------------------------------------------ merged names
\* merge_databases.py clones every schema of a database into the output
\* database under the name <database>__<schema>; database_mapping.py splits
\* that name to get the target database and schema back. A name is a string,
\* modelled as the sequence of its characters.
DELIMITER == <<"_", "_">>
Chars == {"A", "_"}
Names == UNION {[1..n -> Chars] : n \in 1..MaxNameLen}

\* Python: sub in s
Contains(s, sub) ==
    \E i \in 1..(Len(s) - Len(sub) + 1) : SubSeq(s, i, i + Len(sub) - 1) = sub

\* Python: s.find(sub), counted from 1; 0 when sub is not in s.
Find(s, sub) ==
    IF Contains(s, sub)
    THEN CHOOSE i \in 1..(Len(s) - Len(sub) + 1) :
            /\ SubSeq(s, i, i + Len(sub) - 1) = sub
            /\ \A j \in 1..(i - 1) : SubSeq(s, j, j + Len(sub) - 1) # sub
    ELSE 0

RECURSIVE split(_, _)
\* Python: s.split(sep): s is cut at every occurrence of sep, found from the
\* left, an occurrence starting where the one before ended at the earliest.
split(s, sep) ==
    IF Find(s, sep) = 0 THEN <<s>>
    ELSE <<SubSeq(s, 1, Find(s, sep) - 1)>>
            \o split(SubSeq(s, Find(s, sep) + Len(sep), Len(s)), sep)

\* The schema part of clone_db_sql: {database_name}{DELIMITER}{schema_name}
CloneName(db, schema) == db \o DELIMITER \o schema

\* create_databases and create_tables are not running.
PoolsIdle ==
    /\ pc = <<>>
    /\ mode = "none"
    /\ missing = {}
    /\ faults = FALSE
    /\ nrecords = 0
    /\ units = <<>>
    /\ cmds = <<>>
    /\ databases = {}
    /\ schemas = <<>>
    /\ RunInit

NameInit ==
    /\ namePc = "merge"
    /\ database_name \in Names
    /\ schema_name \in Names
    /\ merged = <<>>
    /\ parts = <<>>
    /\ LoopsIdle
    /\ PoolsIdle

\* merge_database, one turn of its loop over the schemas: ValueError when
\* the schema or database name contains the delimiter, else the clone.
MergeSchema ==
    /\ namePc = "merge"
    /\ IF Contains(schema_name, DELIMITER) \/ Contains(database_name, DELIMITER)
       THEN namePc' = "rejected" /\ UNCHANGED merged
       ELSE namePc' = "merged" /\ merged' = CloneName(database_name, schema_name)
    /\ UNCHANGED <<database_name, schema_name, parts, loops, pools>>

\* database_mapping main, one turn of its loop over the schemas of the output
\* database: schema_name.split(DELIMITER)
MapSchema ==
    /\ namePc = "merged"
    /\ parts' = split(merged, DELIMITER)
    /\ namePc' = "mapped"
    /\ UNCHANGED <<database_name, schema_name, merged, loops, pools>>

NameNext == MergeSchema \/ MapSchema

NameSpec == NameInit /\ [][NameNext]_vars

\* ------------------------------------------------------------ merge_database
\* The schema every database has and merge_database leaves out.
INFORMATION_SCHEMA ==
    <<"I", "N", "F", "O", "R", "M", "A", "T", "I", "O", "N", "_",
      "S", "C", "H", "E", "M", "A">>

\* The database all the clones go to.
output_database == <<"O", "U", "T">>

\* Names of one or two characters: with and without the delimiter.
ShortNames == {n \in Names : Len(n) <= Len(DELIMITER)}

\* A listing names every schema once.
ListingsOf(names) ==
    {l \in SeqsUpTo(names, MaxSchemas) :
        \A i, j \in 1..Len(l) : l[i] = l[j] => i = j}

Statement(sql, name, source) == [sql |-> sql, name |-> name, source |-> source]

create_db_sql == Statement("CREATE DATABASE IF NOT EXISTS", output_database, <<>>)

show_schemas_sql(db) == Statement("SHOW SCHEMAS IN DATABASE", db, <<>>)

clone_db_sql(db, schema) ==
    Statement("CREATE SCHEMA IF NOT EXISTS CLONE",
              output_database \o <<".">> \o CloneName(db, schema),
              db \o <<".">> \o schema)

\* The list the for loop goes over: the listing without INFORMATION_SCHEMA.
Filtered(listing) == SelectSeq(listing, LAMBDA s : s # INFORMATION_SCHEMA)

ExecutesAlways(dry) == TRUE

\* if dry_run: logger.debug(sql) else: cursor.execute(sql)
Executes(dry) == ~dry

MergeInit ==
    /\ namePc = "create"
    /\ database_name \in ShortNames
    /\ schema_names \in ListingsOf(ShortNames \cup {INFORMATION_SCHEMA})
    /\ dry_run \in BOOLEAN
    /\ idx = 0
    /\ executed = <<>>
    /\ schema_name = <<>>
    /\ merged = <<>>
    /\ parts = <<>>
    /\ unpacked = <<>>
    /\ jsons = <<>>
    /\ PoolsIdle

\* CREATE DATABASE IF NOT EXISTS: executed unless dry_run; it returns or raises.
MergeCreateDatabase ==
    /\ namePc = "create"
    /\ IF Executes(dry_run)
       THEN \E ok \in BOOLEAN :
               IF ok
               THEN namePc' = "list" /\ executed' = Append(executed, create_db_sql)
               ELSE namePc' = "raised" /\ UNCHANGED executed
       ELSE namePc' = "list" /\ UNCHANGED executed
    /\ UNCHANGED <<database_name, schema_name, merged, parts, schema_names, idx,
                   dry_run, unpacked, jsons, pools>>

\* get_schema_names: the listing is read whatever dry_run says; it returns or
\* raises.
MergeListSchemas ==
    /\ namePc = "list"
    /\ \E ok \in BOOLEAN :
           IF ok
           THEN /\ namePc' = "loop"
                /\ executed' = Append(executed, show_schemas_sql(database_name))
                /\ idx' = 1
           ELSE namePc' = "raised" /\ UNCHANGED <<executed, idx>>
    /\ UNCHANGED <<database_name, schema_name, merged, parts, schema_names,
                   dry_run, unpacked, jsons, pools>>

\* One turn of the for loop: the delimiter check, then the clone statement.
MergeTurn ==
    /\ namePc = "loop"
    /\ idx <= Len(Filtered(schema_names))
    /\ LET s == Filtered(schema_names)[idx] IN
       IF Contains(s, DELIMITER) \/ Contains(database_name, DELIMITER)
       THEN namePc' = "rejected" /\ UNCHANGED <<executed, idx>>
       ELSE IF Executes(dry_run)
            THEN \E ok \in BOOLEAN :
                    IF ok
                    THEN /\ executed' = Append(executed, clone_db_sql(database_name, s))
                         /\ idx' = idx + 1
                         /\ UNCHANGED namePc
                    ELSE namePc' = "raised" /\ UNCHANGED <<executed, idx>>
            ELSE idx' = idx + 1 /\ UNCHANGED <<namePc, executed>>
    /\ UNCHANGED <<database_name, schema_name, merged, parts, schema_names,
                   dry_run, unpacked, jsons, pools>>

\* The list is exhausted: merge_database returns.
MergeReturn ==
    /\ namePc = "loop"
    /\ idx > Len(Filtered(schema_names))
    /\ namePc' = "done"
    /\ UNCHANGED <<database_name, schema_name, merged, parts, loops, pools>>

MergeNext == MergeCreateDatabase \/ MergeListSchemas \/ MergeTurn \/ MergeReturn

MergeSpec == MergeInit /\ [][MergeNext]_vars

\* ------------------------------------------------------------ database_mapping
\* Names a schema of the merged database can have: up to a clone's name with
\* one character on each side of the delimiter.
MappedNames == UNION {[1..n -> Chars] : n \in 1..(Len(DELIMITER) + 2)}

\* f"{new_database_name}.{real_schema_name}"
target_fqn_schema(names) == names[1] \o <<".">> \o names[2]

\* The record of one schema; its table rows repeat target_fqn_schema.
schema_json(schema, names) ==
    [source_schema |-> schema,
     target_database_name |-> names[1],
     target_schema |-> target_fqn_schema(names)]

\* new_database_name, real_schema_name = schema_name.split(DELIMITER), with
\* except ValueError: logger.warning(e): a list of another length assigns
\* nothing and the two names stay what they were.
Unpack(schema, names) ==
    IF Len(split(schema, DELIMITER)) = 2 THEN split(schema, DELIMITER) ELSE names

\* main has the listing of the source database and enters its loop.
MappingInit ==
    /\ namePc = "map"
    /\ schema_names \in ListingsOf(MappedNames \cup {INFORMATION_SCHEMA})
    /\ idx = 1
    /\ unpacked = <<>>
    /\ jsons = <<>>
    /\ database_name = <<>>
    /\ schema_name = <<>>
    /\ merged = <<>>
    /\ parts = <<>>
    /\ dry_run = TRUE
    /\ executed = <<>>
    /\ PoolsIdle

\* One turn of the for loop.  With the two names still unbound, line 61 raises
\* UnboundLocalError and main is left; get_table_names returns or raises.
MapTurn ==
    /\ namePc = "map"
    /\ idx <= Len(schema_names)
    /\ unpacked' = Unpack(schema_names[idx], unpacked)
    /\ IF unpacked' = <<>>
       THEN namePc' = "raised" /\ UNCHANGED <<jsons, idx>>
       ELSE \E ok \in BOOLEAN :
               IF ok
               THEN /\ jsons' = Append(jsons, schema_json(schema_names[idx], unpacked'))
                    /\ idx' = idx + 1
                    /\ UNCHANGED namePc
               ELSE namePc' = "raised" /\ UNCHANGED <<jsons, idx>>
    /\ UNCHANGED <<database_name, schema_name, merged, parts, schema_names,
                   dry_run, executed, pools>>

\* writer.write_all(jsons)
MapWrite ==
    /\ namePc = "map"
    /\ idx > Len(schema_names)
    /\ namePc' = "written"
    /\ UNCHANGED <<database_name, schema_name, merged, parts, loops, pools>>

MappingNext == MapTurn \/ MapWrite

MappingSpec == MappingInit /\ [][MappingNext]_vars

\* ================================================================ claims
Submitted == Range(units)
Stmts(u) == 1..Len(cmds[u])
Executed(u) == {k \in Stmts(u) : sq[u][k] # "pending"}
StmtRaised(u) == \E k \in Stmts(u) : sq[u][k] = "raised"
IsDone(o) == o \in {"DONE", "SUCCESS"}
IsSkipped(o) == o \in {"SKIPPED", "SKIP"}

\* C1: in flat mode the statements of a unit are executed in list order
\* (at every moment the executed statements are a prefix of the list and
\* every statement before an executed one returned); after a statement raised
\* no later one is executed and the unit returns "FAILED"; a unit that was not
\* skipped and none of whose statements raised returns "DONE" with every
\* statement executed.
C1_InOrderFailFast ==
    mode = "flat" =>
      \A u \in Submitted :
        /\ \A k \in Executed(u) : \A j \in 1..(k - 1) : sq[u][j] = "ok"
        /\ StmtRaised(u) => Finished(u) /\ result[u] = "FAILED"
        /\ result[u] = "FAILED" => StmtRaised(u)
        /\ result[u] = "DONE" => \A k \in Stmts(u) : sq[u][k] = "ok"
        /\ (Finished(u) /\ Executed(u) # {} /\ ~StmtRaised(u)) => result[u] = "DONE"

\* A unit whose third statement raised: the six after it stay unexecuted.
C1_Witness ==
    /\ mode = "flat"
    /\ \E u \in Submitted :
          /\ sq[u][3] = "raised"
          /\ Executed(u) = {1, 2, 3}
          /\ u \in DOMAIN db_create_statuses
          /\ db_create_statuses[u] = "FAILED"

\* A call of the unit's own worker raised where that costs the unit its
\* Done/Skipped outcome: in flat mode the connection, the database check or a
\* statement; in nested mode CREATE SCHEMA or a table statement.
OwnFailure(u) ==
    \/ StmtRaised(u)
    \/ raisedAt[u] \cap {"connect", "create_schema"} # {}
    \/ mode = "flat" /\ "check" \in raisedAt[u]

\* C2: failure isolation in both pools: no failure of a unit stops the pool
\* (no exception leaves the result loop, and when main is over every submitted
\* unit has its outcome), and a unit none of whose own calls failed ends Done
\* or Skipped whatever happened to its siblings.
C2_FailureIsolation ==
    /\ mainPc \notin {"raised", "aborted"}
    /\ mainPc = "done" => \A u \in Submitted : Outcome(u) # "NONE"
    /\ \A u \in Submitted :
          (Finished(u) /\ ~OwnFailure(u)) =>
              /\ IsDone(result[u]) \/ IsSkipped(result[u])
              /\ u \in collected => Outcome(u) = result[u]

\* A run is over with one unit Error or Failed and its sibling Done.
C2_Witness ==
    /\ mainPc = "done"
    /\ \E u, v \in Submitted :
          /\ Outcome(u) \in {"ERROR", "FAILED"}
          /\ OwnFailure(u)
          /\ IsDone(Outcome(v))

\* The worker of u is at its existence check.
AtCheck(u) == pc[u] = (IF mode = "flat" THEN "check" ELSE "show")

\* The target of u fully exists: the database, or the schema with as many
\* tables as the unit has statements.
TargetFull(u) ==
    IF mode = "flat" THEN u \in databases
    ELSE schemas[u].exists /\ Cardinality(schemas[u].tables) = Len(cmds[u])

\* C3: when the existence check of a unit answers that the target fully
\* exists, the unit returns Skipped at once, and a unit that returned Skipped
\* has executed none of its statements and is recorded as Skipped.
C3_SkipWhenFull ==
    /\ [][\A u \in Submitted :
            (AtCheck(u) /\ TargetFull(u) /\ ~AtCheck(u)' /\ raisedAt'[u] = raisedAt[u])
               => /\ Finished(u)'
                  /\ IsSkipped(result'[u])]_vars
    /\ [](\A u \in Submitted :
            IsSkipped(result[u]) =>
               /\ Executed(u) = {}
               /\ u \in collected => IsSkipped(Outcome(u)))

\* The scenario of the spec: FOO did not exist and all its statements
\* succeeded, BAR existed: {FOO: DONE, BAR: SKIPPED}, no statement of BAR run.
C3_Witness ==
    /\ mode = "flat"
    /\ run = 1
    /\ mainPc = "done"
    /\ DOMAIN db_create_statuses = {"FOO", "BAR"}
    /\ db_create_statuses["FOO"] = "DONE"
    /\ db_create_statuses["BAR"] = "SKIPPED"
    /\ Executed("FOO") = Stmts("FOO")
    /\ Executed("BAR") = {}

\* C4 (as claimed): in nested mode a schema unit one of whose table
\* statements raised never returns SUCCESS: its outcome is the failure status
\* (Status.ERROR, create_tables has no other).
C4_RaisedStatementFails ==
    mode = "nested" =>
      \A u \in Submitted :
        (Finished(u) /\ StmtRaised(u)) => result[u] = "ERROR"

\* No call of the worker of u raised in this run, the SHOW TABLES of a missing
\* schema apart.
NoFault(u) == ~StmtRaised(u) /\ raisedAt[u] \subseteq {"no_schema"}

\* C5 (as claimed): a unit that a run recorded as Done is recorded as Skipped
\* by the next run (same mapping, nothing else touching the warehouse, no
\* call of the unit raising in that next run).
C5_DoneThenSkipped ==
    \A u \in Submitted :
      (run > 1 /\ IsDone(prev[u]) /\ u \in collected /\ NoFault(u))
          => IsSkipped(Outcome(u))

\* C6: a schema unit with statements whose SHOW TABLES answers a number of
\* tables other than the number of statements goes on to the inner pool, with
\* every statement submitted; a unit that entered the inner pool never returns
\* SKIP, and returns only once every statement was executed; a unit with
\* statements that returned SKIP has a schema holding exactly that many tables.
C6_ResumeWhenCountDiffers ==
    /\ [][\A u \in Submitted :
            (/\ mode = "nested"
             /\ pc[u] = "show"
             /\ schemas[u].exists
             /\ ~TargetFull(u)
             /\ pc'[u] # "show"
             /\ raisedAt'[u] = raisedAt[u])
               => pc'[u] = "pool" /\ result'[u] = "NONE"]_vars
    /\ [](mode = "nested" =>
            \A u \in Submitted :
              /\ (Finished(u) /\ (pc[u] = "pool" \/ Executed(u) # {}))
                    => result[u] # "SKIP" /\ Executed(u) = Stmts(u)
              /\ (result[u] = "SKIP" /\ Len(cmds[u]) >= 1) => TargetFull(u))

\* A schema that held one table of another name and whose unit has two
\* statements: not skipped, both statements executed.
C6_Witness ==
    /\ mode = "nested"
    /\ run = 1
    /\ \E u \in Submitted :
          /\ Len(cmds[u]) = 2
          /\ raisedAt[u] = {}
          /\ OtherTable \in schemas[u].tables
          /\ Executed(u) = Stmts(u)
          /\ u \in collected
          /\ result[u] = "SUCCESS"

RECURSIVE SumCounts(_, _)
SumCounts(c, keys) ==
    IF keys = {} THEN 0
    ELSE LET k == CHOOSE x \in keys : TRUE
         IN c[k] + SumCounts(c, keys \ {k})

\* C7: every submitted unit id is submitted once and gets exactly one
\* recorded outcome: at every moment the recorded outcomes are those of the
\* futures consumed so far, one write each; when main is over, flat mode's
\* mapping has exactly the submitted databases as keys and nested mode's
\* counts sum to the number of submitted schema units.
C7_OneOutcomePerUnit ==
    /\ Len(units) = Cardinality(Submitted)
    /\ \A u \in Ids : writes[u] = (IF u \in collected THEN 1 ELSE 0)
    /\ collected \subseteq Submitted
    /\ mode = "flat" => DOMAIN db_create_statuses = collected
    /\ mode = "nested" => SumCounts(statuses, DOMAIN statuses) = Cardinality(collected)
    /\ mainPc = "done" => collected = Submitted

\* A flat run of two units is over, one worker raised, both have their entry.
C7_Witness ==
    /\ mode = "flat"
    /\ mainPc = "done"
    /\ Cardinality(Submitted) = 2
    /\ \E u \in Submitted : result[u] = "EXC" /\ db_create_statuses[u] = "ERROR"
    /\ DOMAIN db_create_statuses = Submitted

\* C8 (as claimed): once the existence query of a unit has raised, none of
\* the unit's statements is executed and the unit ends as Error.
C8_CheckErrorIsError ==
    \A u \in Submitted :
      "check" \in raisedAt[u] =>
          /\ Executed(u) = {}
          /\ Finished(u) => result[u] \in {"EXC", "ERROR"}

\* C8 (amended): in flat mode a raising database check ends the unit at once
\* with an exception that main records as ERROR, no statement executed. In
\* nested mode a raising SHOW TABLES is followed by CREATE SCHEMA IF NOT
\* EXISTS; the unit ends ERROR exactly when that statement raised, and
\* otherwise enters the inner pool with a table count of 0, executes every
\* statement and returns SUCCESS, never SKIP.
C8_CheckErrorAmended ==
    \A u \in Submitted :
      /\ (mode = "flat" /\ "check" \in raisedAt[u]) =>
            /\ Finished(u) /\ result[u] = "EXC"
            /\ Executed(u) = {}
            /\ u \in collected => db_create_statuses[u] = "ERROR"
      /\ (mode = "nested" /\ raisedAt[u] \cap {"check", "no_schema"} # {}) =>
            /\ pc[u] \in {"create", "pool", "done"}
            /\ Finished(u) => (result[u] = "ERROR" <=> "create_schema" \in raisedAt[u])
            /\ (Finished(u) /\ "create_schema" \notin raisedAt[u]) =>
                   result[u] = "SUCCESS" /\ Executed(u) = Stmts(u)
            /\ "create_schema" \in raisedAt[u] => Executed(u) = {}

\* SHOW TABLES raised although the schema existed, and the unit went on to
\* execute its statements and returned SUCCESS.
C8_Witness ==
    /\ mode = "nested"
    /\ \E u \in Submitted :
          /\ raisedAt[u] = {"check"}
          /\ Executed(u) = Stmts(u)
          /\ result[u] = "SUCCESS"

\* C9: an exception raised by a worker outside statement execution (flat:
\* acquiring the connection, the database check; nested: CREATE SCHEMA) ends
\* the unit's future at once, is recorded as ERROR for that unit and never
\* leaves the result loop of main.
C9_OrchestrationErrorCaught ==
    /\ mainPc \notin {"raised", "aborted"}
    /\ \A u \in Submitted :
          (\/ mode = "flat" /\ raisedAt[u] \cap {"connect", "check"} # {}
           \/ mode = "nested" /\ "create_schema" \in raisedAt[u]) =>
              /\ Finished(u)
              /\ Executed(u) = {}
              /\ mode = "nested" => result[u] = "ERROR"
              /\ u \in collected =>
                    IF mode = "flat" THEN db_create_statuses[u] = "ERROR"
                    ELSE statuses["ERROR"] >= 1

\* A nested run is over: CREATE SCHEMA raised for one unit, counted as ERROR,
\* and the sibling was counted as SUCCESS.
C9_Witness ==
    /\ mode = "nested"
    /\ mainPc = "done"
    /\ statuses["ERROR"] = 1
    /\ statuses["SUCCESS"] = 1
    /\ \E u \in Submitted : "create_schema" \in raisedAt[u] /\ result[u] = "ERROR"

\* C10 (as claimed, its flat-mode case): a database unit that a run recorded
\* as FAILED is not skipped by the next run, which executes its statements
\* again (no call of the unit raising before them).
C10_FailedIsRetried ==
    \A u \in Submitted :
      (mode = "flat" /\ run > 1 /\ prev[u] = "FAILED" /\ u \in collected
         /\ raisedAt[u] = {})
          => Outcome(u) # "SKIPPED" /\ Executed(u) # {}

\* The connections the worker of u has sent a query on in this run.
ConnsUsed(u) == {c.conn : c \in calls[u]}

\* C11 (as claimed): two outer-pool workers that are running at the same
\* moment have never sent a query on the same connection.
C11_NoSharedConnection ==
    \A u, v \in Submitted :
      (u # v /\ Running(u) /\ Running(v)) => ConnsUsed(u) \cap ConnsUsed(v) = {}

\* C11 (amended): in flat mode every worker sends all its queries on the one
\* connection it made for itself, which no other worker ever uses; in nested
\* mode every query of every schema worker goes over the connection main made.
C11_ConnectionPerMode ==
    /\ mode = "flat" =>
          \A u \in Submitted :
            /\ Cardinality(ConnsUsed(u)) <= 1
            /\ \A v \in Submitted \ {u} : ConnsUsed(u) \cap ConnsUsed(v) = {}
    /\ mode = "nested" =>
          \A u \in Submitted : ConnsUsed(u) \subseteq {get_sf_connection("main")}

\* Two database workers are running, each has sent its check on its connection.
C11_Witness ==
    /\ mode = "flat"
    /\ \E u, v \in Submitted :
          /\ u # v
          /\ Running(u) /\ Running(v)
          /\ calls[u] # {} /\ calls[v] # {}
          /\ ConnsUsed(u) # ConnsUsed(v)

\* The kinds of query the worker of u has sent in this run.
SqlSent(u) == {c.sql : c \in calls[u]}

\* C12: in nested mode a schema unit whose worker is at its inner pool, or
\* any of whose table statements has started, has an existing schema; when the
\* schema was missing at check time, CREATE SCHEMA was sent and returned before
\* the first table statement started, and while the worker is still at CREATE
\* SCHEMA no table statement has started.
C12_SchemaBeforeTables ==
    mode = "nested" =>
      \A u \in Submitted :
        /\ (pc[u] = "pool" \/ Executed(u) # {}) => schemas[u].exists
        /\ pc[u] = "create" => Executed(u) = {}
        /\ ("no_schema" \in raisedAt[u] /\ Executed(u) # {}) =>
              /\ "CREATE SCHEMA" \in SqlSent(u)
              /\ "create_schema" \notin raisedAt[u]

\* The schema was missing at check time, was created, and a table statement
\* of the unit is now in execution.
C12_Witness ==
    /\ mode = "nested"
    /\ \E u \in Submitted :
          /\ raisedAt[u] = {"no_schema"}
          /\ schemas[u].exists
          /\ InExecution(u) # {}

\* Nothing of the pools has happened: no unit submitted, no query sent, no
\* outcome held or recorded.
NothingStarted ==
    /\ \A u \in Ids : pc[u] = "idle" /\ calls[u] = {} /\ result[u] = "NONE"
    /\ collected = {}
    /\ db_create_statuses = <<>>
    /\ SumCounts(statuses, DOMAIN statuses) = 0

\* C13 (as claimed): when any of the six connection parameters is missing,
\* main gets no further than the configuration error: no unit is submitted,
\* none gets an outcome, no statement is executed.
C13_MissingParamAborts ==
    missing # {} =>
        /\ NothingStarted
        /\ mainPc # "done"

\* C13 (amended): when account, role, warehouse, admin role or readonly role
\* is missing, main ends in the configuration error with nothing started. The
\* user is not checked: when nothing else is missing there is no configuration
\* error, and with the user missing flat mode submits every unit, each of which
\* fails to connect, executes nothing and is recorded as ERROR, while nested
\* mode fails at the connect of main with nothing started.
C13_CheckedParamAborts ==
    /\ missing \ {"DESTINATION_USER"} # {} =>
          /\ mainPc \in {"config", "config_error"}
          /\ NothingStarted
    /\ missing \subseteq {"DESTINATION_USER"} => mainPc # "config_error"
    /\ (missing = {"DESTINATION_USER"} /\ mainPc # "config") =>
          IF mode = "flat"
          THEN \A u \in Submitted :
                 /\ pc[u] # "idle"
                 /\ calls[u] = {}
                 /\ Finished(u) => result[u] = "EXC"
                 /\ u \in collected => db_create_statuses[u] = "ERROR"
          ELSE mainPc \in {"connect", "connect_error"} /\ NothingStarted

\* SNOWFLAKE_ROLE is missing and main has ended in the configuration error,
\* its two units never submitted.
C13_Witness ==
    /\ missing = {"SNOWFLAKE_ROLE"}
    /\ mainPc = "config_error"
    /\ Len(units) = 2
    /\ NothingStarted

\* The positions in the submission order whose worker is running.
RunningAt == {i \in 1..Len(units) : Running(units[i])}

\* C14: whatever the mapping, several records of one target included, the
\* submission list names each unit id once (never more entries than records),
\* so each id has one future and one worker, and no two running workers have
\* the same target; a unit's future is consumed once.
C14_OneWorkerPerTarget ==
    /\ \A i, j \in 1..Len(units) : i # j => units[i] # units[j]
    /\ Len(units) <= nrecords
    /\ \A i, j \in RunningAt : i # j => units[i] # units[j]
    /\ Cardinality(RunningAt) = Cardinality({u \in Ids : Running(u)})
    /\ \A u \in Ids : pc[u] # "idle" => u \in Submitted
    /\ \A u \in Submitted : writes[u] <= 1

\* The mapping had two records of the same target: one unit was submitted,
\* ran its statements and got its one outcome.
C14_Witness ==
    /\ nrecords = 2
    /\ Len(units) = 1
    /\ mainPc = "done"
    /\ Executed(units[1]) = Stmts(units[1])
    /\ Len(cmds[units[1]]) >= 1
    /\ writes[units[1]] = 1

\* The width of the outer pool of the script that is running.
OuterWidth == IF mode = "flat" THEN MaxDbWorkers ELSE MAX_SCHEMA_THREADS

RECURSIVE SumInExecution(_)
SumInExecution(us) ==
    IF us = {} THEN 0
    ELSE LET u == CHOOSE x \in us : TRUE
         IN Cardinality(InExecution(u)) + SumInExecution(us \ {u})

\* C15: at every moment at most OuterWidth units are being processed (8
\* database units, 2 schema units), each schema unit has at most
\* MAX_TABLE_THREADS table statements in execution, only units being processed
\* have statements in execution, and so at most 2 * 4 table statements are in
\* execution overall.
C15_BoundedParallelism ==
    /\ Cardinality({u \in Ids : Running(u)}) <= OuterWidth
    /\ \A u \in Ids : Cardinality(InExecution(u)) <= MAX_TABLE_THREADS
    /\ \A u \in Ids : InExecution(u) # {} => Running(u)
    /\ SumInExecution(Ids) <= MAX_SCHEMA_THREADS * MAX_TABLE_THREADS

\* Both pools of create_tables are full: two schema units are being processed
\* while a third waits, each with four statements in execution and a fifth
\* waiting.
C15_Witness ==
    /\ mode = "nested"
    /\ Cardinality({u \in Ids : Running(u)}) = MAX_SCHEMA_THREADS
    /\ \E u \in Submitted : Queued(u)
    /\ \A u \in Ids : Running(u) =>
          /\ Cardinality(InExecution(u)) = MAX_TABLE_THREADS
          /\ \E k \in Stmts(u) : sq[u][k] = "pending"
    /\ SumInExecution(Ids) = MAX_SCHEMA_THREADS * MAX_TABLE_THREADS

\* An outcome a unit's future can end with.
FinalResults == {"DONE", "SKIPPED", "FAILED", "EXC", "SUCCESS", "SKIP", "ERROR"}

\* C16: in a fair run every submitted unit is eventually started and ends
\* with one final result, and main then gets through its result loop to the
\* summary with every outcome recorded; a unit that is being processed stays
\* so until it ends, whatever its siblings do.
C16_RunToCompletion ==
    /\ \A u \in DbNames \cup SchemaNames :
          (pc[u] = "queued") ~> (pc[u] = "done" /\ result[u] \in FinalResults)
    /\ (mainPc = "pool") ~> (mainPc = "done" /\ collected = Submitted)
    /\ [][\A u \in Ids :
            /\ Running(u) => (Running(u)' \/ Finished(u)')
            /\ Finished(u) => (Finished(u)' /\ result'[u] = result[u])]_vars

\* A run of two database units is over: the first statement of one raised,
\* the other was started all the same and ended DONE.
C16_Witness ==
    /\ mode = "flat"
    /\ mainPc = "done"
    /\ collected = Submitted
    /\ \E u, v \in Submitted :
          /\ sq[u][1] = "raised"
          /\ db_create_statuses[u] = "FAILED"
          /\ db_create_statuses[v] = "DONE"
          /\ Executed(v) = Stmts(v)

\* C17: in nested mode no query is ever sent for a schema unit with an empty
\* statement list (no SHOW TABLES, no CREATE SCHEMA, no table statement, so
\* no call of it raises and its schema is left as it was), its worker goes
\* from its start straight to its end, and its outcome is SKIP.
C17_EmptySkipsWithoutQuery ==
    mode = "nested" =>
      \A u \in Submitted :
        Len(cmds[u]) = 0 =>
          /\ calls[u] = {}
          /\ raisedAt[u] = {}
          /\ pc[u] \in {"idle", "queued", "begin", "done"}
          /\ Finished(u) => result[u] = "SKIP"
          /\ u \in collected => statuses["SKIP"] >= 1

\* A unit without statements, whose schema does not exist, was counted as
\* SKIP, the schema still missing.
C17_Witness ==
    /\ mode = "nested"
    /\ \E u \in Submitted :
          /\ Len(cmds[u]) = 0
          /\ u \in collected
          /\ result[u] = "SKIP"
          /\ ~schemas[u].exists
          /\ calls[u] = {}

\* C18: in nested mode a schema unit whose worker has returned has no table
\* statement pending or running: every statement it submitted to its inner
\* pool has returned or raised (a unit that ended before its pool, SKIP or
\* ERROR, submitted none).
C18_InnerPoolDrained ==
    mode = "nested" =>
      \A u \in Submitted :
        Finished(u) =>
          /\ InExecution(u) = {}
          /\ \/ Executed(u) = {} /\ result[u] \in {"SKIP", "ERROR"}
             \/ /\ result[u] = "SUCCESS"
                /\ \A k \in Stmts(u) : sq[u][k] \in {"ok", "raised"}
                /\ "CREATE TABLE" \in SqlSent(u)

\* A unit of two statements has returned: one statement returned, the other
\* raised, none is left.
C18_Witness ==
    /\ mode = "nested"
    /\ \E u \in Submitted :
          /\ Finished(u)
          /\ Len(cmds[u]) = 2
          /\ sq[u][1] = "raised"
          /\ sq[u][2] = "ok"

\* C19: the skip check looks at the number of tables only. A unit with N >= 1
\* statements whose SHOW TABLES returned (no call raised, no statement started
\* yet) is at its inner pool only if the schema does not hold N tables, and has
\* ended only as SKIP with the schema holding N tables, whatever their names.
C19_CountOnlySkip ==
    mode = "nested" =>
      \A u \in Submitted :
        (Len(cmds[u]) >= 1 /\ raisedAt[u] = {} /\ Executed(u) = {}) =>
          /\ pc[u] = "pool" => Cardinality(schemas[u].tables) # Len(cmds[u])
          /\ Finished(u) =>
                /\ result[u] = "SKIP"
                /\ schemas[u].exists
                /\ Cardinality(schemas[u].tables) = Len(cmds[u])

\* A unit of one statement was skipped on a schema that holds one table, of
\* another name than the unit's target table.
C19_Witness ==
    /\ mode = "nested"
    /\ \E u \in Submitted :
          /\ Len(cmds[u]) = 1
          /\ schemas[u].tables = {OtherTable}
          /\ OtherTable \notin Range(cmds[u])
          /\ u \in collected
          /\ result[u] = "SKIP"

\* C20 (as claimed): the name merge_database gave the clone of schema S of
\* database D splits in database_mapping into exactly the two parts D and S.
C20_NameRoundTrip ==
    namePc = "mapped" =>
        /\ Len(parts) = 2
        /\ parts[1] = database_name
        /\ parts[2] = schema_name

\* What line 58 yields for a record's own source schema.
OwnParts(record) == split(record.source_schema, DELIMITER)

\* The record's targets are the two parts of its own source schema.
DerivedFromOwn(record) ==
    /\ Len(OwnParts(record)) = 2
    /\ record.target_database_name = OwnParts(record)[1]
    /\ record.target_schema = target_fqn_schema(OwnParts(record))

\* C21 (as claimed): every record database_mapping writes to the mapping file
\* has target_database_name and target_schema derived from its own
\* source_schema; a schema whose name does not split in exactly two parts gets
\* no record carrying the names of a schema processed before it.
C21_TargetsFromOwnSchema ==
    namePc = "written" => \A i \in 1..Len(jsons) : DerivedFromOwn(jsons[i])

\* The statements that change the warehouse, among those executed.
Changing(stmts) == SelectSeq(stmts, LAMBDA q : q.sql # "SHOW SCHEMAS IN DATABASE")

\* One clone statement per schema of the listing other than INFORMATION_SCHEMA,
\* in listing order.
CloneStatements ==
    [i \in 1..Len(Filtered(schema_names)) |->
        clone_db_sql(database_name, Filtered(schema_names)[i])]

\* C22 (amended): with dry_run = True merge_database executes nothing but the
\* read-only schema listing, whatever the database and its schemas are; with
\* dry_run = False a call that returns has executed exactly one CREATE DATABASE
\* IF NOT EXISTS, the listing, and then one clone statement per schema other
\* than INFORMATION_SCHEMA, in listing order.
C22_DryRunFrame ==
    /\ dry_run =>
          \A i \in 1..Len(executed) : executed[i] = show_schemas_sql(database_name)
    /\ (~dry_run /\ namePc = "done") =>
          /\ Changing(executed) = <<create_db_sql>> \o CloneStatements
          /\ executed = <<create_db_sql, show_schemas_sql(database_name)>>
                            \o CloneStatements

\* A call with dry_run = False returned after cloning two schemas of a listing
\* that also names INFORMATION_SCHEMA.
C22_Witness ==
    /\ namePc = "done"
    /\ ~dry_run
    /\ Len(schema_names) = 3
    /\ Len(Filtered(schema_names)) = 2
    /\ Len(executed) = 4

\* C22 (as claimed): with dry_run = False every call that no warehouse error
\* interrupts has executed one CREATE DATABASE IF NOT EXISTS followed by one
\* clone statement per schema other than INFORMATION_SCHEMA, in listing order.
C22_AsClaimed ==
    /\ dry_run =>
          \A i \in 1..Len(executed) : executed[i] = show_schemas_sql(database_name)
    /\ (~dry_run /\ namePc \in {"done", "rejected"}) =>
          Changing(executed) = <<create_db_sql>> \o CloneStatements

\* C23 (as claimed): when merge_database with dry_run = False raises the
\* delimiter ValueError, that call has executed no CREATE DATABASE and no clone
\* statement before the error.
C23_RejectedLeavesNoChange ==
    (namePc = "rejected" /\ ~dry_run) => Changing(executed) = <<>>

====
